---- MODULE Spec2Model ----
(***************************************************************************)
(* Acquisition pipeline of the NIL news aggregator (src/main.py): the      *)
(* periodic background_crawler, POST /api/crawl (manual_crawl), one pass   *)
(* of crawl_feeds over FEEDS, process_entry with its SELECT / page GET /   *)
(* INSERT await points, and the stories table with its PRIMARY KEY; and    *)
(* the crawl_scheduler, crawl_feeds and process_entry of src/nil_news.py   *)
(* with its PostgreSQL stories table.  A run is a run of one of the two    *)
(* programs.                                                               *)
(*                                                                         *)
(* Texts are sequences of tokens (words, and punctuation marks as tokens   *)
(* of their own); `k in content` of the code is modelled as "the token     *)
(* sequence k occurs contiguously", so a keyword inside a longer word is   *)
(* not represented.  Scores are the code's floats, all of them whole.      *)
(***************************************************************************)
EXTENDS Integers, Sequences, FiniteSets, TLC

\* ------------------------------------------------------------------ bounds
\* number of feed URLs in FEEDS, single-pass specification
NumFeeds == 2
\* number of manual_crawl tasks that can be alive at the same time
MaxManual == 1
\* keyword occurrences added to a text handed to the relevance engine
MaxAdded == 1
\* longest feed a source returns in the single-pass specification
MaxFeedLen == 11
\* times the clock advances, specification of the crawls and the queries
MaxTicks == 1

\* ------------------------------------------------------- program constants
\* main.py: feed.entries[:8]
EntryCap == 8
\* nil_news.py: feed.entries[:10]
NewsEntryCap == 10

\* the background_crawler task
Bg == 0
\* the tasks created by manual_crawl
Manual == 1..MaxManual
Passes == {Bg} \cup Manual
\* the crawl_scheduler task of nil_news.py
News == MaxManual + 1
Tasks == Passes \cup {News}

\* FEEDS, as indices of its URLs in list order
FEEDS == [i \in 1..NumFeeds |-> i]
\* FEEDS of the concurrent specifications: their passes race on one source
ConcFEEDS == <<1>>

NoLink == "none"
\* entry.get("published", "") of an entry without the field
NoDate == [fmt |-> "none", at |-> 0]
NoEntry == [link |-> NoLink, title |-> <<>>, summary |-> <<>>, description |-> <<>>,
            published |-> NoDate]
\* no row waits for its commit
NoRow == [id |-> "none"]
\* no page requested
NoPage == [kind |-> "none", status |-> 0, body |-> <<>>]
NoProbe == [title |-> <<>>, text |-> <<>>, added |-> 0]
NoVerdict == [done |-> FALSE, relevant |-> FALSE, relevance_score |-> 0,
              sentiment |-> "neutral", breaking_news |-> FALSE, category |-> "General",
              news_category |-> "General", key_entities |-> <<>>]

\* ------------------------------------------------------------ pure helpers
Min(a, b) == IF a < b THEN a ELSE b

\* k occurs in content as a contiguous run of tokens (Python `k in content`)
Contains(content, k) ==
    \E i \in 0..(Len(content) - Len(k)) :
        \A j \in 1..Len(k) : content[i + j] = k[j]

\* title + " " + text
Join(title, text) == title \o text

KEYWORDS ==
    << <<"nil">>, <<"name", "image", "likeness">>, <<"nil", "deal">>,
       <<"nil", "collective">>, <<"nil", "marketplace">>,
       <<"collective">>, <<"booster">>, <<"endorsement">>, <<"sponsorship">>,
       <<"brand", "deal">>, <<"student-athlete">>, <<"college", "athlete">>,
       <<"transfer", "portal">>, <<"recruiting">>,
       <<"house", "v", "ncaa">>, <<"house", "settlement">>, <<"opendorse">>,
       <<"marketpryce">>, <<"icon", "source">>,
       <<"social", "media", "influencer">>, <<"athlete", "influencer">>,
       <<"nil", "influencer">>,
       <<"ncaa">>, <<"compliance">>, <<"eligibility">>,
       <<"fair", "market", "value">>, <<"revenue", "sharing">>,
       <<"antitrust">>, <<"lawsuit">>, <<"settlement">>,
       <<"pay", "for", "play">>, <<"recruiting", "inducement">> >>

\* a local variable: v is computed once and the body F uses its value
With(v, F(_)) == CHOOSE r \in {F(c) : c \in {v}} : TRUE

\* str.lower() of one token
Lower(tok) ==
    CASE tok = "NIL" -> "nil"
      [] tok = "Breaking" -> "breaking"
      [] tok = "Exclusive" -> "exclusive"
      [] tok = "Texas" -> "texas"
      [] tok = "Arch" -> "arch"
      [] tok = "Manning" -> "manning"
      [] tok = "Sports" -> "sports"
      [] tok = "Illustrated" -> "illustrated"
      [] tok = "Deal" -> "deal"
      [] OTHER -> tok

\* str.lower()
lower(content) == [i \in 1..Len(content) |-> Lower(content[i])]

\* a count that stops at the first occurrence
Count_Presence(content, k) == IF Contains(content, k) THEN 1 ELSE 0

\* content.count(k): the occurrences of k (no keyword of the code overlaps
\* itself, so the non-overlapping count is the number of occurrences)
Count(content, k) ==
    Cardinality({i \in 0..(Len(content) - Len(k)) :
                    \A j \in 1..Len(k) : content[i + j] = k[j]})

\* any(k in content for k in ks)
AnyIn(content, ks) == \E i \in 1..Len(ks) : Contains(content, ks[i])

\* sum(1 for k in ks if k in content)
HowManyIn(content, ks) == Cardinality({i \in 1..Len(ks) : Contains(content, ks[i])})

\* matches = sum(1 for keyword in keywords_lower if keyword in text_lower)
KeywordMatches(text) == With(lower(text), LAMBDA text_lower : HowManyIn(text_lower, KEYWORDS))

is_relevant(text) == KeywordMatches(text) >= 2

\* ----------------------------------------------------- relevance engine
high_value ==
    << <<"nil", "deal">>, <<"nil", "collective">>, <<"house", "v", "ncaa">>,
       <<"nil", "endorsement">>, <<"nil", "settlement">>, <<"nil", "lawsuit">>,
       <<"breaking", ":">>, <<"exclusive", ":">> >>

medium_value ==
    << <<"nil">>, <<"collective">>, <<"booster">>, <<"endorsement">>,
       <<"transfer", "portal">>, <<"opendorse">>, <<"marketpryce">> >>

low_value ==
    << <<"college", "athlete">>, <<"student-athlete">>, <<"recruiting">>,
       <<"ncaa">> >>

\* the indicators of the bonus in calculate_relevance_score
bonus_indicators ==
    << <<"breaking">>, <<"exclusive">>, <<"just", "in">>, <<"developing">> >>

\* sum of content.count(keyword) * weight over one list
RECURSIVE WeightedCount(_, _, _)
WeightedCount(content, ks, weight) ==
    IF ks = <<>> THEN 0
    ELSE Count(content, Head(ks)) * weight + WeightedCount(content, Tail(ks), weight)

\* the score before the bonus
KeywordScore(content) ==
    WeightedCount(content, high_value, 3) + WeightedCount(content, medium_value, 2)
        + WeightedCount(content, low_value, 1)

\* the +2.0 of the bonus
UrgencyBonus(content) == IF AnyIn(content, bonus_indicators) THEN 2 ELSE 0

\* a cap that throws away a score above it
Cap_Reject(score) == IF score > 15 THEN 0 ELSE score

\* min(score, 15.0)
Cap(score) == Min(score, 15)

calculate_relevance_score(title, text) ==
    With(lower(Join(title, text)),
         LAMBDA content : Cap(KeywordScore(content) + UrgencyBonus(content)))

\* a list without "developing"
breaking_indicators_Short ==
    << <<"breaking">>, <<"just", "in">>, <<"exclusive">>, <<"first", "reported">> >>

breaking_indicators ==
    << <<"breaking">>, <<"just", "in">>, <<"developing">>, <<"exclusive">>,
       <<"first", "reported">> >>

is_breaking_news(title, text) ==
    With(lower(Join(title, text)), LAMBDA content : AnyIn(content, breaking_indicators))

positive_words ==
    << <<"record">>, <<"milestone">>, <<"success">>, <<"breakthrough">>,
       <<"major", "deal">>, <<"signing">>, <<"partnership">>, <<"expansion">>,
       <<"growth">>, <<"opportunity">> >>

negative_words ==
    << <<"lawsuit">>, <<"violation">>, <<"penalty">>, <<"suspended">>,
       <<"banned">>, <<"controversy">>, <<"scandal">>, <<"investigation">>,
       <<"denied">>, <<"rejected">> >>

detect_sentiment(title, text) ==
    With(lower(Join(title, text)), LAMBDA content :
        LET positive_count == HowManyIn(content, positive_words)
            negative_count == HowManyIn(content, negative_words)
        IN  IF positive_count > negative_count THEN "positive"
            ELSE IF negative_count > positive_count THEN "negative"
            ELSE "neutral")

\* the categories dict, in insertion order
categories ==
    << [name |-> "Breaking News",
        keywords |-> << <<"breaking">>, <<"just", "in">>, <<"developing">>, <<"exclusive">> >>],
       [name |-> "Legal",
        keywords |-> << <<"lawsuit">>, <<"settlement">>, <<"antitrust">>, <<"legal">>,
                        <<"court">>, <<"house", "v", "ncaa">> >>],
       [name |-> "Collectives",
        keywords |-> << <<"collective">>, <<"booster">>, <<"donor">>, <<"fund">> >>],
       [name |-> "Technology",
        keywords |-> << <<"marketplace">>, <<"platform">>, <<"app">>, <<"technology">>,
                        <<"opendorse">>, <<"marketpryce">> >>],
       [name |-> "Social Media",
        keywords |-> << <<"social", "media">>, <<"influencer">>, <<"instagram">>,
                        <<"tiktok">>, <<"youtube">> >>],
       [name |-> "Recruiting",
        keywords |-> << <<"transfer", "portal">>, <<"recruiting">>, <<"prospect">>,
                        <<"commit">> >>],
       [name |-> "High School",
        keywords |-> << <<"high", "school">>, <<"prep">>, <<"youth">> >>],
       [name |-> "Business",
        keywords |-> << <<"revenue">>, <<"deal">>, <<"contract">>, <<"partnership">>,
                        <<"sponsorship">>, <<"valuation">> >>],
       [name |-> "Policy",
        keywords |-> << <<"ncaa">>, <<"compliance">>, <<"eligibility">>, <<"rules">>,
                        <<"regulation">> >>] >>

\* a scan in which a later matching category replaces an earlier one
RECURSIVE ScanCategories_LastMatch(_, _)
ScanCategories_LastMatch(combined, table) ==
    IF table = <<>> THEN "General"
    ELSE LET rest == ScanCategories_LastMatch(combined, Tail(table))
         IN  IF rest # "General" THEN rest
             ELSE IF AnyIn(combined, Head(table).keywords) THEN Head(table).name
             ELSE "General"

\* for category, keywords in categories.items(): the first match returns
RECURSIVE ScanCategories(_, _)
ScanCategories(combined, table) ==
    IF table = <<>> THEN "General"
    ELSE IF AnyIn(combined, Head(table).keywords) THEN Head(table).name
    ELSE ScanCategories(combined, Tail(table))

categorize_content(title, text) ==
    With(lower(Join(title, text)), LAMBDA combined : ScanCategories(combined, categories))

\* ------------------------------------------------------------- entities
\* tokens the money pattern \$[\d,]+(?:\.\d{2})? matches
MoneyTokens == {"$2", "$500"}

\* (?:million|billion|thousand|M|B|K) under re.IGNORECASE
MoneyUnits == {"million", "billion", "thousand", "m", "b", "k"}

\* re.findall(money_pattern, content, re.IGNORECASE)
money_matches(content) ==
    {IF i < Len(content) /\ Lower(content[i + 1]) \in MoneyUnits
     THEN <<content[i], content[i + 1]>> ELSE <<content[i]>> :
        i \in {j \in 1..Len(content) : content[j] \in MoneyTokens}}

universities ==
    << <<"Alabama">>, <<"Georgia">>, <<"Texas">>, <<"Ohio", "State">>,
       <<"Michigan">>, <<"USC">>, <<"UCLA">>, <<"Florida">>, <<"LSU">>,
       <<"Auburn">>, <<"Tennessee">>, <<"Kentucky">>, <<"Duke">>, <<"UNC">>,
       <<"Miami">>, <<"Oregon">>, <<"Washington">>, <<"Stanford">>,
       <<"Notre", "Dame">>, <<"Penn", "State">> >>

\* uni.lower() of a name of the list
UniLower(uni) ==
    CASE uni = <<"Alabama">> -> <<"alabama">>
      [] uni = <<"Georgia">> -> <<"georgia">>
      [] uni = <<"Texas">> -> <<"texas">>
      [] uni = <<"Ohio", "State">> -> <<"ohio", "state">>
      [] uni = <<"Michigan">> -> <<"michigan">>
      [] uni = <<"USC">> -> <<"usc">>
      [] uni = <<"UCLA">> -> <<"ucla">>
      [] uni = <<"Florida">> -> <<"florida">>
      [] uni = <<"LSU">> -> <<"lsu">>
      [] uni = <<"Auburn">> -> <<"auburn">>
      [] uni = <<"Tennessee">> -> <<"tennessee">>
      [] uni = <<"Kentucky">> -> <<"kentucky">>
      [] uni = <<"Duke">> -> <<"duke">>
      [] uni = <<"UNC">> -> <<"unc">>
      [] uni = <<"Miami">> -> <<"miami">>
      [] uni = <<"Oregon">> -> <<"oregon">>
      [] uni = <<"Washington">> -> <<"washington">>
      [] uni = <<"Stanford">> -> <<"stanford">>
      [] uni = <<"Notre", "Dame">> -> <<"notre", "dame">>
      [] uni = <<"Penn", "State">> -> <<"penn", "state">>

\* for uni in universities: if uni.lower() in content.lower()
university_matches(content) ==
    With(lower(content), LAMBDA content_lower :
        {universities[i] : i \in {j \in 1..Len(universities) :
                                      Contains(content_lower, UniLower(universities[j]))}})

\* words the pattern [A-Z][a-z]+ matches
Capitalised == {"Breaking", "Exclusive", "Texas", "Arch", "Manning", "Sports",
                "Illustrated", "Deal"}

\* re.findall(r'\b[A-Z][a-z]+ [A-Z][a-z]+\b', content): leftmost matches that
\* do not overlap, from token i on
RECURSIVE potential_names(_, _)
potential_names(content, i) ==
    IF i >= Len(content) THEN {}
    ELSE IF content[i] \in Capitalised /\ content[i + 1] \in Capitalised
    THEN {<<content[i], content[i + 1]>>} \cup potential_names(content, i + 2)
    ELSE potential_names(content, i + 1)

exclude_names ==
    { <<"Sports", "Illustrated">>, <<"Front", "Office">>, <<"College", "Sports">>,
      <<"Business", "Journal">> }

\* set(entities)
EntitySet(title, text) ==
    With(Join(title, text), LAMBDA content :
        money_matches(content) \cup university_matches(content)
            \cup (potential_names(content, 1) \ exclude_names))

\* list(S): the elements of S in an order the hash seed of the process decides
Orders(S) ==
    {f \in [1..Cardinality(S) -> S] : \A i, j \in 1..Cardinality(S) : f[i] = f[j] => i = j}

\* extract_key_entities: the lists list(set(entities))[:10] can be
extract_key_entities(title, text) ==
    {SubSeq(f, 1, Min(Len(f), 10)) : f \in UNION {Orders(S) : S \in {EntitySet(title, text)}}}

\* --------------------------------------------------------------- source
\* urlparse(url).netloc
netloc(url) ==
    CASE url \in {"https://x.com/a", "https://x.com/b"} -> "x.com"
      [] url \in {"https://www.espn.com/c"} -> "www.espn.com"

\* the value of the first key of source_map that occurs in the url, else
\* the domain without "www." and ".com", title-cased
extract_source(url) ==
    CASE netloc(url) = "www.espn.com" -> "ESPN"
      [] netloc(url) = "x.com" -> "X"

\* ---------------------------------------------------------------- brief
\* len() of one token
TokLen(tok) ==
    CASE tok \in {":", "."} -> 1
      [] tok \in {"$2", "in", "v"} -> 2
      [] tok \in {"nil", "NIL", "app", "...", "not"} -> 3
      [] tok \in {"deal", "Deal", "game", "ncaa", "just", "Arch", "$500"} -> 4
      [] tok \in {"<div>", "house", "Texas", "texas", "first", "signs", "found", "recap"} -> 5
      [] tok \in {"portal", "Sports"} -> 6
      [] tok \in {"booster", "lawsuit", "Manning", "million", "stadium"} -> 7
      [] tok \in {"<script>", "transfer", "Breaking", "breaking", "reported"} -> 8
      [] tok \in {"Exclusive", "exclusive", "announced"} -> 9
      [] tok \in {"collective", "recruiting", "settlement", "developing"} -> 10
      [] tok \in {"Illustrated", "endorsement", "partnership"} -> 11

\* len() of a text: its tokens, a space between two of them, none before a
\* punctuation mark
RECURSIVE CharLen(_)
CharLen(s) ==
    IF s = <<>> THEN 0
    ELSE TokLen(Head(s)) + CharLen(Tail(s))
            + (IF Len(s) > 1 /\ s[2] \notin {":", "."} THEN 1 ELSE 0)

\* text.split('.'): the runs of tokens between full stops
RECURSIVE SplitStops(_, _)
SplitStops(s, run) ==
    IF s = <<>> THEN <<run>>
    ELSE IF Head(s) = "." THEN <<run>> \o SplitStops(Tail(s), <<>>)
    ELSE SplitStops(Tail(s), Append(run, Head(s)))

\* [s.strip() + '.' for s in text.split('.') if len(s.strip()) > 20]
Sentences(t) ==
    With(SelectSeq(SplitStops(t, <<>>), LAMBDA r : CharLen(r) > 20),
         LAMBDA long : [i \in 1..Len(long) |-> Append(long[i], ".")])

\* any(indicator in sentence_lower for indicator in ['$', 'deal', ...])
IsPriority(sentence) ==
    \/ \E i \in 1..Len(sentence) : sentence[i] \in MoneyTokens
    \/ AnyIn(lower(sentence), << <<"deal">>, <<"signed">>, <<"announced">>,
                                 <<"breaking">>, <<"million">>, <<"contract">> >>)

\* ' '.join(sentences)
RECURSIVE JoinAll(_)
JoinAll(ss) == IF ss = <<>> THEN <<>> ELSE Head(ss) \o JoinAll(Tail(ss))

\* summary[:500]: the longest run of whole tokens within 500 characters
RECURSIVE Clip(_, _)
Clip(s, k) ==
    IF s = <<>> \/ CharLen(<<Head(s)>>) > k THEN <<>>
    ELSE <<Head(s)>> \o Clip(Tail(s), k - TokLen(Head(s)) - 1)

\* the sentences chosen of those checked
SelectSentences(checked) ==
    LET priority_sentences == SelectSeq(checked, IsPriority)
        regular_sentences == SelectSeq(checked, LAMBDA x : ~IsPriority(x))
        selected_sentences ==
            SubSeq(priority_sentences, 1, Min(Len(priority_sentences), 2))
                \o SubSeq(regular_sentences, 1, Min(Len(regular_sentences), 1))
    IN  JoinAll(SubSeq(selected_sentences, 1, Min(Len(selected_sentences), 3)))

enhanced_summarize_text(t) ==
    With(Sentences(t), LAMBDA sentences :
        With(SelectSentences(SubSeq(sentences, 1, Min(Len(sentences), 10))),
             LAMBDA summary :
                IF CharLen(summary) > 500
                THEN Append(Clip(summary, 500), "...") ELSE summary))

\* trafilatura.extract: the page's text without its markup; None ("" here)
\* when nothing is left
Markup == {"<div>", "<script>"}
extract(html) == SelectSeq(html, LAMBDA t : t \notin Markup)

\* text = extract(response.text) or response.text[:2000]
PageText(body) == IF extract(body) # <<>> THEN extract(body) ELSE SubSeq(body, 1, Min(Len(body), 2000))

\* text = entry.get("summary", "") + " " + entry.get("description", "")
FallbackText(e) == e.summary \o e.description

\* hashlib.sha256(url.encode()).hexdigest(): a collision-free digest
sha256(url) ==
    CASE url = "https://x.com/a" -> "ca97"
      [] url = "https://x.com/b" -> "3e23"
      [] OTHER -> "e3b0"

\* ------------------------------------------------------------ input domains
Links == {"https://x.com/a", "https://x.com/b"}

\* published strings: ISO 8601 (Atom) and RFC 822 (RSS), as hours
Entries ==
    { [link |-> "https://x.com/a", title |-> <<"nil", "deal">>,
       summary |-> <<"booster">>, description |-> <<>>,
       published |-> [fmt |-> "iso", at |-> 0]],
      [link |-> "https://x.com/b", title |-> <<"game">>,
       summary |-> <<"nil">>, description |-> <<>>,
       published |-> [fmt |-> "rfc822", at |-> 0]],
      [link |-> NoLink, title |-> <<"nil", "collective">>,
       summary |-> <<>>, description |-> <<>>, published |-> NoDate],
      [link |-> "https://x.com/a", title |-> <<"nil", "deal">>,
       summary |-> <<>>, description |-> <<>>, published |-> NoDate] }

\* feed entries offered to nil_news.py: also one without any keyword
NewsEntries ==
    Entries \cup { [link |-> "https://x.com/b", title |-> <<"game">>,
                    summary |-> <<>>, description |-> <<"recap">>,
                    published |-> NoDate] }

PageBodies == { <<"<div>", "nil", "collective">>, <<"<div>">> }

\* what the page request answers: the bodies with status 200, an error page
\* with status 404
PageResponses ==
    {[status |-> 200, body |-> b] : b \in PageBodies}
        \cup {[status |-> 404, body |-> <<"<div>", "not", "found">>]}

\* feed lengths of the single-pass specification: empty, short, above the cap
PassFeedLens == {0, 2, MaxFeedLen}

\* inputs of the concurrent specification: feeds of at most one entry, every
\* entry with a link, one page body
ConcFeedLens == {0, 1}
ConcEntries == {e \in Entries : e.link # NoLink /\ e.summary # <<>>}
ConcResponses == {[status |-> 200, body |-> <<"<div>", "nil", "collective">>]}

\* -------------------------------------------------------------------- state
VARIABLES
    pc,          \* pc[p]: where task p stands
    feed,        \* feed[p]: the source being crawled (feed_url)
    todo,        \* todo[p]: the sources `for feed_url in FEEDS` has yet to reach
    n,           \* n[p]: len(feed.entries) of the parsed feed
    idx,         \* idx[p]: position in feed.entries[:8] being processed
    entry,       \* entry[p]: the entry handed to process_entry
    text,        \* text[p]: the text resolved by process_entry
    exc,         \* exc[p]: the exception caught by `except Exception as e`
    stories,     \* rows of the stories table, in insertion order
    pending,     \* pending[p]: the row p's connection has inserted and not committed
    pg_stories,  \* rows of the stories table of nil_news.py
    response,    \* body of the last answer of POST /api/crawl
    fetched,     \* fetched[p]: sources requested so far in p's pass
    failed,      \* sources whose crawl failed in the scheduler's current pass
    page,        \* page[p]: what `await client.get(url)` of process_entry gave
    crawled_at,  \* crawled_at[p]: utcnow() as process_entry read it
    now,         \* datetime.utcnow(), in hours
    summaries,   \* the last answer of GET /api/summaries
    probe,       \* the title and text handed to the relevance engine
    verdict,     \* what the relevance engine returned for probe
    wire_pc,     \* where continuous_crawl of nil_wire.py stands
    coros,       \* the _process_entry coroutines crawl_once handed to gather
    wire_stories,\* committed rows of the stories table of nil_wire.py
    wire_txn     \* rows inserted on nil_wire.py's connection and not committed

vars == <<pc, feed, todo, n, idx, entry, text, exc, stories, pending, pg_stories, response,
          fetched, failed, page, crawled_at, now, summaries, probe, verdict,
          wire_pc, coros, wire_stories, wire_txn>>

\* the state no step of a crawl pass writes
outside == <<now, summaries, probe, verdict, wire_pc, coros, wire_stories, wire_txn>>

\* the state of nil_wire.py
wire_vars == <<wire_pc, coros, wire_stories, wire_txn>>

\* the state of the crawl passes and of the store
crawl_vars == <<pc, feed, todo, n, idx, entry, text, exc, stories, pending, pg_stories,
                response, fetched, failed, page, crawled_at>>

\* ----------------------------------------------------------- stories table
\* a SELECT that never finds the row
DbExists_Never(table, id) == FALSE

\* SELECT 1 FROM stories WHERE id=?
DbExists(table, id) == \E i \in 1..Len(table) : table[i].id = id

\* a table without its key: every INSERT appends
DbInsert_NoPrimaryKey(table, row) == [ok |-> TRUE, table |-> Append(table, row)]

\* INSERT INTO stories VALUES (...) on a table with id TEXT PRIMARY KEY: a
\* second row with the same id is refused
DbInsert(table, row) ==
    IF \E i \in 1..Len(table) : table[i].id = row.id
    THEN [ok |-> FALSE, table |-> table]
    ELSE [ok |-> TRUE, table |-> Append(table, row)]

\* the row process_entry builds for its INSERT
Row(e, t, key_entities, at) ==
    [id |-> sha256(e.link), title |-> e.title, url |-> e.link,
     published |-> e.published,
     summary |-> SubSeq(t, 1, Min(Len(t), 3000)),
     brief |-> enhanced_summarize_text(t),
     crawled_at |-> [fmt |-> "iso", at |-> at],
     source |-> extract_source(e.link),
     category |-> categorize_content(e.title, t),
     relevance_score |-> calculate_relevance_score(e.title, t),
     sentiment |-> detect_sentiment(e.title, t),
     key_entities |-> key_entities,
     breaking_news |-> is_breaking_news(e.title, t)]

\* everything but the tasks' positions
InitData ==
    /\ feed = [p \in Tasks |-> 0]
    /\ todo = [p \in Tasks |-> <<>>]
    /\ n = [p \in Tasks |-> 0]
    /\ idx = [p \in Tasks |-> 0]
    /\ entry = [p \in Tasks |-> NoEntry]
    /\ text = [p \in Tasks |-> <<>>]
    /\ exc = [p \in Tasks |-> "none"]
    /\ stories = <<>>
    /\ pending = [p \in Tasks |-> NoRow]
    /\ pg_stories = <<>>
    /\ response = "none"
    /\ fetched = [p \in Tasks |-> {}]
    /\ failed = {}
    /\ page = [p \in Tasks |-> NoPage]
    /\ crawled_at = [p \in Tasks |-> 0]
    /\ now = 0
    /\ summaries = <<>>

\* nil_wire.py is not running
InitWireOff ==
    /\ wire_pc = "off"
    /\ coros = <<>>
    /\ wire_stories = <<>>
    /\ wire_txn = <<>>

\* the relevance engine has not been called on its own, nil_wire.py is not running
InitOutside ==
    /\ probe = NoProbe
    /\ verdict = NoVerdict
    /\ InitWireOff

\* main.py after startup(): background_crawler enters its first crawl_feeds
Init ==
    /\ pc = [p \in Tasks |-> IF p = Bg THEN "init_db"
                              ELSE IF p = News THEN "off" ELSE "idle"]
    /\ InitData
    /\ InitOutside

\* nil_news.py after startup(): crawl_scheduler is created
InitNews ==
    /\ pc = [p \in Tasks |-> IF p = News THEN "start"
                              ELSE IF p = Bg THEN "off" ELSE "idle"]
    /\ InitData
    /\ InitOutside

\* ------------------------------------------------------------- crawl_feeds
\* feed.entries without the slice: every entry of the feed
EntrySlice_All(len) == len

\* len(feed.entries[:8])
EntrySlice(len) == Min(len, EntryCap)

\* `for feed_url in FEEDS`: the next of the sources q is requested, or the
\* loop ends (main.py goes on to db.close(), nil_news.py returns)
NextFeedFrom(p, q, got) ==
    /\ n' = [n EXCEPT ![p] = 0]
    /\ idx' = [idx EXCEPT ![p] = 0]
    /\ entry' = [entry EXCEPT ![p] = NoEntry]
    /\ text' = [text EXCEPT ![p] = <<>>]
    /\ page' = [page EXCEPT ![p] = NoPage]
    /\ crawled_at' = [crawled_at EXCEPT ![p] = 0]
    /\ exc' = [exc EXCEPT ![p] = "none"]
    /\ IF q # <<>>
       THEN /\ feed' = [feed EXCEPT ![p] = Head(q)]
            /\ todo' = [todo EXCEPT ![p] = Tail(q)]
            /\ pc' = [pc EXCEPT ![p] = "feed_get"]
            /\ fetched' = [fetched EXCEPT ![p] = got \cup {Head(q)}]
       ELSE /\ pc' = [pc EXCEPT ![p] = IF p = News THEN "sleep" ELSE "close"]
            /\ todo' = [todo EXCEPT ![p] = <<>>]
            /\ fetched' = [fetched EXCEPT ![p] = got]
            /\ UNCHANGED feed

NextFeed(p) == NextFeedFrom(p, todo[p], fetched[p])

\* nil_news.py: len(feed.entries[:10])
NewsEntrySlice(len) == Min(len, NewsEntryCap)

\* process_entry returned: `for entry in feed.entries[:K]` goes on
NextEntry(p) ==
    IF idx[p] < (IF p = News THEN NewsEntrySlice(n[p]) ELSE EntrySlice(n[p]))
    THEN /\ idx' = [idx EXCEPT ![p] = @ + 1]
         /\ pc' = [pc EXCEPT ![p] = "entry"]
         /\ entry' = [entry EXCEPT ![p] = NoEntry]
         /\ text' = [text EXCEPT ![p] = <<>>]
         /\ page' = [page EXCEPT ![p] = NoPage]
         /\ crawled_at' = [crawled_at EXCEPT ![p] = 0]
         /\ UNCHANGED <<feed, todo, n, exc, fetched>>
    ELSE NextFeed(p)

\* the source p is crawling is noted as failed (scheduled passes only)
NoteFailure(p) ==
    /\ failed' = IF p \in {Bg, News} THEN failed \cup {feed[p]} ELSE failed
    /\ UNCHANGED outside

\* an exception leaves process_entry (or the feed request) and reaches
\* `except Exception as e` of crawl_feeds
Raise(p, kind) ==
    /\ pc' = [pc EXCEPT ![p] = "feed_except"]
    /\ exc' = [exc EXCEPT ![p] = kind]
    /\ NoteFailure(p)
    /\ UNCHANGED <<feed, todo, n, idx, entry, text, page, crawled_at, fetched>>

\* POST /api/crawl: asyncio.create_task(crawl_feeds()) and the answer
manual_crawl(m) ==
    /\ pc[m] = "idle"
    /\ \A k \in Manual : k < m => pc[k] # "idle"
    /\ pc' = [pc EXCEPT ![m] = "init_db"]
    /\ response' = "enhanced crawl started"
    /\ UNCHANGED <<feed, todo, n, idx, entry, text, page, crawled_at, exc, stories, pending, pg_stories, fetched, failed, outside>>

\* background_crawler: asyncio.sleep is over, `while True` calls crawl_feeds
BackgroundWake ==
    /\ pc[Bg] = "sleep"
    /\ pc' = [pc EXCEPT ![Bg] = "init_db"]
    /\ failed' = {}
    /\ UNCHANGED outside
    /\ UNCHANGED <<feed, todo, n, idx, entry, text, page, crawled_at, exc, stories, pending, pg_stories, response, fetched>>

\* db = await init_db() succeeds; the loop over the sources starts
InitDbOk(p, feeds) ==
    /\ pc[p] = "init_db"
    /\ NextFeedFrom(p, feeds, {})
    /\ UNCHANGED <<stories, pending, pg_stories, response, failed, outside>>

\* db = await init_db() raises: the exception leaves crawl_feeds; it ends a
\* manual task and reaches the except of background_crawler
InitDbFail(p) ==
    /\ pc[p] = "init_db"
    /\ pc' = [pc EXCEPT ![p] = IF p = Bg THEN "crawler_except" ELSE "idle"]
    /\ UNCHANGED <<feed, todo, n, idx, entry, text, page, crawled_at, exc, stories, pending, pg_stories, response, fetched, failed, outside>>

\* a background_crawler without its try/except: the task ends
BackgroundExcept_Dies ==
    /\ pc[Bg] = "crawler_except"
    /\ pc' = [pc EXCEPT ![Bg] = "dead"]
    /\ UNCHANGED <<feed, todo, n, idx, entry, text, page, crawled_at, exc, stories, pending, pg_stories, response, fetched, failed, outside>>

\* background_crawler: `except Exception as e`, then asyncio.sleep(60)
BackgroundExcept ==
    /\ pc[Bg] = "crawler_except"
    /\ pc' = [pc EXCEPT ![Bg] = "sleep"]
    /\ UNCHANGED <<feed, todo, n, idx, entry, text, page, crawled_at, exc, stories, pending, pg_stories, response, fetched, failed, outside>>

\* await client.get(feed_url) raises (timeout, transport error)
FeedFetchFail(p) ==
    /\ pc[p] = "feed_get"
    /\ Raise(p, "RequestError")
    /\ UNCHANGED <<stories, pending, pg_stories, response>>

\* feed.bozo: `continue`
FeedBozo(p) ==
    /\ pc[p] = "feed_get"
    /\ NextFeed(p)
    /\ NoteFailure(p)
    /\ UNCHANGED <<stories, pending, pg_stories, response>>

\* the feed is parsed; the loop over feed.entries[:8] starts
FeedOk(p, len) ==
    /\ pc[p] = "feed_get"
    /\ IF EntrySlice(len) = 0
       THEN NextFeed(p)
       ELSE /\ n' = [n EXCEPT ![p] = len]
            /\ idx' = [idx EXCEPT ![p] = 1]
            /\ pc' = [pc EXCEPT ![p] = "entry"]
            /\ UNCHANGED <<feed, todo, entry, text, page, crawled_at, exc, fetched>>
    /\ UNCHANGED <<stories, pending, pg_stories, response, failed, outside>>

\* a crawl_feeds whose except block ends the pass
FeedExcept_Abort(p) ==
    /\ pc[p] = "feed_except"
    /\ pc' = [pc EXCEPT ![p] = "close"]
    /\ n' = [n EXCEPT ![p] = 0]
    /\ idx' = [idx EXCEPT ![p] = 0]
    /\ entry' = [entry EXCEPT ![p] = NoEntry]
    /\ text' = [text EXCEPT ![p] = <<>>]
    /\ page' = [page EXCEPT ![p] = NoPage]
    /\ crawled_at' = [crawled_at EXCEPT ![p] = 0]
    /\ exc' = [exc EXCEPT ![p] = "none"]
    /\ todo' = [todo EXCEPT ![p] = <<>>]
    /\ UNCHANGED <<feed, fetched, stories, pending, pg_stories, response, failed, outside>>

\* a crawl_feeds whose except block requests the failed source again
FeedExcept_Retry(p) ==
    /\ pc[p] = "feed_except"
    /\ NextFeedFrom(p, <<feed[p]>> \o todo[p], fetched[p])
    /\ UNCHANGED <<stories, pending, pg_stories, response, failed, outside>>

\* the except block of crawl_feeds: print, then the next source
FeedExcept(p) ==
    /\ pc[p] = "feed_except"
    /\ NextFeed(p)
    /\ UNCHANGED <<stories, pending, pg_stories, response, failed, outside>>

\* await db.close(); crawl_feeds returns: the background crawler sleeps, a
\* manual task ends
Close(p) ==
    /\ pc[p] = "close"
    /\ pc' = [pc EXCEPT ![p] = IF p = Bg THEN "sleep" ELSE "idle"]
    /\ feed' = [feed EXCEPT ![p] = 0]
    /\ fetched' = [fetched EXCEPT ![p] = {}]
    /\ UNCHANGED <<todo, n, idx, entry, text, page, crawled_at, exc, stories, pending, pg_stories, response, failed, outside>>

\* ----------------------------------------------------------- process_entry
\* process_entry(entry, ...): no link returns at once, else the SELECT is sent
ProcessEntry(p, e) ==
    /\ pc[p] = "entry"
    /\ IF e.link = NoLink
       THEN NextEntry(p)
       ELSE /\ entry' = [entry EXCEPT ![p] = e]
            /\ pc' = [pc EXCEPT ![p] = "select"]
            /\ UNCHANGED <<feed, todo, n, idx, text, page, crawled_at, exc, fetched>>
    /\ UNCHANGED <<stories, pending, pg_stories, response, failed, outside>>

\* the SELECT answers: a stored id returns, a new one requests the page
Select(p) ==
    /\ pc[p] = "select"
    /\ IF DbExists(stories, sha256(entry[p].link))
       THEN NextEntry(p)
       ELSE /\ pc' = [pc EXCEPT ![p] = "page_get"]
            /\ UNCHANGED <<feed, todo, n, idx, entry, text, page, crawled_at, exc, fetched>>
    /\ UNCHANGED <<stories, pending, pg_stories, response, failed, outside>>

\* the SELECT raises (database locked, I/O error)
SelectFail(p) ==
    /\ pc[p] = "select"
    /\ Raise(p, "OperationalError")
    /\ UNCHANGED <<stories, pending, pg_stories, response>>

\* a process_entry without its relevance test: every resolved entry is sent
Resolved_NoFilter(p, t, got) ==
    /\ text' = [text EXCEPT ![p] = t]
    /\ page' = [page EXCEPT ![p] = got]
    /\ crawled_at' = [crawled_at EXCEPT ![p] = now]
    /\ pc' = [pc EXCEPT ![p] = "insert"]
    /\ UNCHANGED <<feed, todo, n, idx, entry, exc, fetched>>

\* relevance test on the resolved text: drop the entry or send the INSERT
Resolved(p, t, got) ==
    IF is_relevant(Join(entry[p].title, t))
    THEN /\ text' = [text EXCEPT ![p] = t]
         /\ page' = [page EXCEPT ![p] = got]
         /\ crawled_at' = [crawled_at EXCEPT ![p] = now]
         /\ pc' = [pc EXCEPT ![p] = "insert"]
         /\ UNCHANGED <<feed, todo, n, idx, entry, exc, fetched>>
    ELSE NextEntry(p)

\* await client.get(url) answers, with any status: the text is what
\* trafilatura extracts, or the head of the body
PageOk(p, status, body) ==
    /\ pc[p] = "page_get"
    /\ Resolved(p, PageText(body), [kind |-> "response", status |-> status, body |-> body])
    /\ UNCHANGED <<stories, pending, pg_stories, response, failed, outside>>

\* a handler that forgets the feed's text when the request raises
PageFail_NoText(p) ==
    /\ pc[p] = "page_get"
    /\ Resolved(p, <<>>, [kind |-> "raised", status |-> 0, body |-> <<>>])
    /\ UNCHANGED <<stories, pending, pg_stories, response, failed, outside>>

\* await client.get(url) raises: the bare except takes the feed's own text
PageFail(p) ==
    /\ pc[p] = "page_get"
    /\ Resolved(p, FallbackText(entry[p]), [kind |-> "raised", status |-> 0, body |-> <<>>])
    /\ UNCHANGED <<stories, pending, pg_stories, response, failed, outside>>

\* a process_entry that sends INSERT OR REPLACE: the row of the same id is
\* deleted and the new one stored
Insert_OrReplace(p) ==
    /\ pc[p] = "insert"
    /\ \A q \in Tasks \ {p} : pending[q] = NoRow
    /\ \E key_entities \in extract_key_entities(entry[p].title, text[p]) :
       \E row \in {Row(entry[p], text[p], key_entities, crawled_at[p])} :
           /\ stories' = SelectSeq(stories, LAMBDA r : r.id # row.id)
           /\ pending' = [pending EXCEPT ![p] = row]
           /\ pc' = [pc EXCEPT ![p] = "commit"]
           /\ UNCHANGED <<feed, todo, n, idx, entry, text, page, crawled_at, exc, fetched,
                          failed, outside>>
    /\ UNCHANGED <<pg_stories, response>>

\* await db.execute(INSERT) once no other connection holds the write lock:
\* the row joins the connection's open transaction, or the key refuses it
Insert(p) ==
    /\ pc[p] = "insert"
    /\ \A q \in Tasks \ {p} : pending[q] = NoRow
    /\ \E key_entities \in extract_key_entities(entry[p].title, text[p]) :
       \E row \in {Row(entry[p], text[p], key_entities, crawled_at[p])} :
           IF DbInsert(stories, row).ok
           THEN /\ pending' = [pending EXCEPT ![p] = row]
                /\ pc' = [pc EXCEPT ![p] = "commit"]
                /\ UNCHANGED <<feed, todo, n, idx, entry, text, page, crawled_at, exc,
                               fetched, failed, outside>>
           ELSE /\ pending' = pending
                /\ Raise(p, "IntegrityError")
    /\ UNCHANGED <<stories, pg_stories, response>>

\* await db.commit(): the row becomes part of the table every connection reads
Commit(p) ==
    /\ pc[p] = "commit"
    /\ stories' = Append(stories, pending[p])
    /\ pending' = [pending EXCEPT ![p] = NoRow]
    /\ NextEntry(p)
    /\ UNCHANGED <<pg_stories, response, failed, outside>>

\* the INSERT raises for another reason (database locked, I/O error)
InsertFail(p) ==
    /\ pc[p] = "insert"
    /\ Raise(p, "OperationalError")
    /\ UNCHANGED <<stories, pending, pg_stories, response>>

\* ------------------------------------------------------------- nil_news.py
NewsHighValue ==
    << <<"nil", "deal">>, <<"nil", "collective">>, <<"house", "v", "ncaa">>,
       <<"nil", "endorsement">> >>

NewsMediumValue ==
    << <<"nil">>, <<"collective">>, <<"booster">>, <<"endorsement">> >>

\* ContentProcessor.calculate_relevance: 3.0 per high-value keyword present,
\* 1.0 per medium-value keyword present, capped at 10
calculate_relevance(title, content) ==
    LET t == Join(title, content)
        high == Cardinality({i \in 1..Len(NewsHighValue) : Contains(t, NewsHighValue[i])})
        medium == Cardinality({i \in 1..Len(NewsMediumValue) : Contains(t, NewsMediumValue[i])})
    IN  Min(high * 3 + medium * 1, 10)

\* content[:500] + "..." if len(content) > 500 else content
\* the categories dict of ContentProcessor.categorize_content, in insertion
\* order
NewsCategories ==
    << [name |-> "Legal",
        keywords |-> << <<"lawsuit">>, <<"settlement">>, <<"antitrust">>, <<"legal">>,
                        <<"court">>, <<"house", "v", "ncaa">> >>],
       [name |-> "Collectives",
        keywords |-> << <<"collective">>, <<"booster">>, <<"donor">>, <<"fund">> >>],
       [name |-> "Technology",
        keywords |-> << <<"marketplace">>, <<"platform">>, <<"app">>, <<"technology">>,
                        <<"opendorse">> >>],
       [name |-> "Social Media",
        keywords |-> << <<"social", "media">>, <<"influencer">>, <<"instagram">>,
                        <<"tiktok">>, <<"youtube">> >>],
       [name |-> "Recruiting",
        keywords |-> << <<"transfer", "portal">>, <<"recruiting">>, <<"prospect">>,
                        <<"commit">> >>],
       [name |-> "High School",
        keywords |-> << <<"high", "school">>, <<"prep">>, <<"youth">> >>],
       [name |-> "Business",
        keywords |-> << <<"revenue">>, <<"deal">>, <<"contract">>, <<"partnership">>,
                        <<"sponsorship">> >>] >>

\* ContentProcessor.categorize_content
NewsCategorize(title, content) ==
    With(lower(Join(title, content)), LAMBDA t : ScanCategories(t, NewsCategories))

NewsBrief(content) ==
    IF Len(content) > 500 THEN SubSeq(content, 1, 500) \o <<"...">> ELSE content

\* the row nil_news.py process_entry inserts (published and source are left
\* out)
NewsRow(e, content) ==
    [id |-> sha256(e.link), title |-> e.title, url |-> e.link,
     brief |-> NewsBrief(content),
     category |-> NewsCategorize(e.title, content),
     relevance_score |-> calculate_relevance(e.title, content)]

\* INSERT INTO stories ... ON CONFLICT (url) DO NOTHING
PgInsert(table, row) ==
    IF \E i \in 1..Len(table) : table[i].url = row.url
    THEN table
    ELSE Append(table, row)

\* crawl_scheduler: `while True` calls crawl_feeds, which requests its first
\* source
SchedulerWake(feeds) ==
    /\ pc[News] \in {"start", "sleep"}
    /\ NextFeedFrom(News, feeds, {})
    /\ failed' = {}
    /\ UNCHANGED outside
    /\ UNCHANGED <<stories, pending, pg_stories, response>>

\* process_entry of nil_news.py: no link and relevance < 1.0 return at once,
\* else the connection to the database is opened
NewsProcessEntry(e) ==
    /\ pc[News] = "entry"
    /\ LET content == FallbackText(e)
       IN  IF e.link = NoLink \/ calculate_relevance(e.title, content) < 1
           THEN NextEntry(News)
           ELSE /\ entry' = [entry EXCEPT ![News] = e]
                /\ text' = [text EXCEPT ![News] = content]
                /\ pc' = [pc EXCEPT ![News] = "connect"]
                /\ UNCHANGED <<feed, todo, n, idx, exc, fetched, page, crawled_at>>
    /\ UNCHANGED <<stories, pending, pg_stories, response, failed, outside>>

\* await asyncpg.connect(...) succeeds; the INSERT is sent
NewsConnectOk ==
    /\ pc[News] = "connect"
    /\ pc' = [pc EXCEPT ![News] = "pg_insert"]
    /\ UNCHANGED <<feed, todo, n, idx, entry, text, page, crawled_at, exc, stories, pending, pg_stories, response, fetched, failed, outside>>

\* await asyncpg.connect(...) raises, before the try of process_entry
NewsConnectFail ==
    /\ pc[News] = "connect"
    /\ Raise(News, "ConnectionError")
    /\ UNCHANGED <<stories, pending, pg_stories, response>>

\* the INSERT answers; finally: conn.close()
NewsInsert ==
    /\ pc[News] = "pg_insert"
    /\ pg_stories' = PgInsert(pg_stories, NewsRow(entry[News], text[News]))
    /\ NextEntry(News)
    /\ UNCHANGED <<stories, pending, response, failed, outside>>

\* the INSERT raises: `except Exception` logs it; finally: conn.close()
NewsInsertFail ==
    /\ pc[News] = "pg_insert"
    /\ NextEntry(News)
    /\ UNCHANGED <<stories, pending, pg_stories, response, failed, outside>>

\* one step of the crawl_scheduler task of nil_news.py
NewsStep(feeds, lens, entries) ==
    \/ SchedulerWake(feeds)
    \/ FeedFetchFail(News)
    \/ FeedBozo(News)
    \/ \E len \in lens : FeedOk(News, len)
    \/ FeedExcept(News)
    \/ \E e \in entries : NewsProcessEntry(e)
    \/ NewsConnectOk
    \/ NewsConnectFail
    \/ NewsInsert
    \/ NewsInsertFail

\* ----------------------------------------------------------- specifications
\* one step of task p inside crawl_feeds, on the given inputs
PassStep(p, feeds, lens, entries, pages) ==
    \/ InitDbOk(p, feeds)
    \/ InitDbFail(p)
    \/ FeedFetchFail(p)
    \/ FeedBozo(p)
    \/ \E len \in lens : FeedOk(p, len)
    \/ FeedExcept(p)
    \/ Close(p)
    \/ \E e \in entries : ProcessEntry(p, e)
    \/ Select(p)
    \/ SelectFail(p)
    \/ \E r \in pages : PageOk(p, r.status, r.body)
    \/ PageFail(p)
    \/ Insert(p)
    \/ InsertFail(p)
    \/ Commit(p)

\* the background crawler and the manual crawls, interleaved at every await
Next ==
    \/ \E m \in Manual : manual_crawl(m)
    \/ BackgroundWake
    \/ BackgroundExcept
    \/ \E p \in Passes : PassStep(p, ConcFEEDS, ConcFeedLens, ConcEntries, ConcResponses)

Spec == Init /\ [][Next]_vars

\* one scheduled crawler alone, of main.py or of nil_news.py, with feeds
\* longer than the per-source caps
NextPass ==
    \/ BackgroundWake
    \/ BackgroundExcept
    \/ PassStep(Bg, FEEDS, PassFeedLens, Entries, PageResponses)
    \/ NewsStep(FEEDS, PassFeedLens, NewsEntries)

SpecPass == (Init \/ InitNews) /\ [][NextPass]_vars

\* the event loop resumes the task, every request answers or times out,
\* every sleep ends
FairPass == SpecPass /\ WF_vars(NextPass)

\* ------------------------------------------------------------ get_summaries
\* datetime(d) of SQLite: the time of an ISO 8601 string, NULL for any other
datetime(d) == IF d.fmt = "iso" THEN [null |-> FALSE, at |-> d.at]
               ELSE [null |-> TRUE, at |-> 0]

\* CASE WHEN published IS NOT NULL AND published != '' THEN datetime(published)
\* ELSE datetime(crawled_at) END as sort_date
sort_date(r) == IF r.published # NoDate THEN datetime(r.published) ELSE datetime(r.crawled_at)

\* sort_date > datetime('now', '-h hours'); a comparison with NULL is not true
Within(d, t, h) == ~d.null /\ d.at > t - h

\* a first ORDER BY term without the breaking bonus
Composite_NoBreakingBonus(r, t) ==
    (IF Within(sort_date(r), t, 24) THEN 50
       ELSE IF Within(sort_date(r), t, 72) THEN 30
       ELSE IF Within(sort_date(r), t, 168) THEN 20
       ELSE IF Within(sort_date(r), t, 336) THEN 10
       ELSE 0)
    + r.relevance_score

\* the first ORDER BY term, at time t
Composite(r, t) ==
    (IF r.breaking_news /\ Within(sort_date(r), t, 24) THEN 1000 ELSE 0)
    + (IF Within(sort_date(r), t, 24) THEN 50
       ELSE IF Within(sort_date(r), t, 72) THEN 30
       ELSE IF Within(sort_date(r), t, 168) THEN 20
       ELSE IF Within(sort_date(r), t, 336) THEN 10
       ELSE 0)
    + r.relevance_score

\* an ORDER BY whose second term is sort_date ASC
MayPrecede_OldestFirst(a, b, t) ==
    \/ Composite(a, t) > Composite(b, t)
    \/ /\ Composite(a, t) = Composite(b, t)
       /\ \/ sort_date(a).null
          \/ ~sort_date(b).null /\ sort_date(a).at <= sort_date(b).at

\* ORDER BY ... DESC, sort_date DESC: row a may come before row b (NULL is
\* the smallest value)
MayPrecede(a, b, t) ==
    \/ Composite(a, t) > Composite(b, t)
    \/ /\ Composite(a, t) = Composite(b, t)
       /\ \/ sort_date(b).null
          \/ ~sort_date(a).null /\ sort_date(a).at >= sort_date(b).at

\* the dict get_summaries returns for a row
SummaryOf(r) ==
    [title |-> r.title, url |-> r.url, published |-> r.published, brief |-> r.brief,
     source |-> r.source, category |-> r.category, crawled_at |-> r.crawled_at,
     relevance_score |-> r.relevance_score, sentiment |-> r.sentiment,
     key_entities |-> r.key_entities, breaking_news |-> r.breaking_news]

\* a SELECT without its ORDER BY: the rows in any order
Ranked_AnyOrder(table, t, limit) ==
    {[i \in 1..(IF limit < 0 \/ limit > Len(table) THEN Len(table) ELSE limit)
         |-> SummaryOf(table[f[i]])] : f \in Orders(1..Len(table))}

\* the answers the SELECT ... ORDER BY ... LIMIT ? can give: the rows in an
\* order the ORDER BY allows, cut to the limit (a negative limit is none)
Ranked(table, t, limit) ==
    {[i \in 1..(IF limit < 0 \/ limit > Len(table) THEN Len(table) ELSE limit)
         |-> SummaryOf(table[f[i]])] :
        f \in {g \in Orders(1..Len(table)) :
                  \A i \in 1..(Len(table) - 1) : MayPrecede(table[g[i]], table[g[i + 1]], t)}}

\* the limits of the requests
QueryLimits == {1, 100}

\* a query that also sees the rows other connections have not committed
get_summaries_Dirty(limit) ==
    /\ summaries' \in Ranked(stories \o SelectSeq([i \in 1..Cardinality(Tasks) |-> pending[i - 1]],
                                                    LAMBDA r : r # NoRow),
                              now, limit)
    /\ UNCHANGED <<crawl_vars, wire_vars, now, probe, verdict>>

\* GET /api/summaries?limit= on a connection of its own: the SELECT reads
\* the committed table
get_summaries(limit) ==
    /\ summaries' \in Ranked(stories, now, limit)
    /\ UNCHANGED <<crawl_vars, wire_vars, now, probe, verdict>>

\* time passes: 30 hours at once, more than a day
Tick ==
    /\ now < 30 * MaxTicks
    /\ now' = now + 30
    /\ UNCHANGED <<crawl_vars, wire_vars, summaries, probe, verdict>>

\* the background crawler, one manual crawl and the queries, interleaved at
\* every await, while time passes
NextQuery ==
    \/ Tick
    \/ manual_crawl(1)
    \/ BackgroundWake
    \/ BackgroundExcept
    \/ \E p \in {Bg, 1} : PassStep(p, ConcFEEDS, ConcFeedLens, ConcEntries, ConcResponses)
    \/ \E limit \in QueryLimits : get_summaries(limit)

SpecQuery == Init /\ [][NextQuery]_vars

\* ---------------------------------------------------- records of every age
\* published strings of feed entries, in hours before and after the start:
\* ISO 8601 ones of every recency tier, an RFC 822 one, and none
RankDates ==
    {[fmt |-> "iso", at |-> a] : a \in {0 - 1, 0 - 2, 0 - 3, 0 - 50, 0 - 100, 0 - 200, 0 - 250, 0 - 400}}
        \cup {[fmt |-> "rfc822", at |-> 0 - 1], NoDate}

\* feed entries with and without a breaking indicator, published at these
\* dates
RankEntries ==
    {[link |-> "https://x.com/a", title |-> <<"developing", "nil">>,
      summary |-> <<"booster">>, description |-> <<>>, published |-> d] :
        d \in {x \in RankDates : x.at \in {0 - 2, 0 - 50} \/ x.fmt = "rfc822"}}
    \cup {[link |-> "https://x.com/a", title |-> <<"nil", "deal">>,
           summary |-> <<"booster">>, description |-> <<>>, published |-> d] :
        d \in {x \in RankDates : x.fmt = "iso" /\ x.at \in {0 - 3, 0 - 250}}}
    \cup {[link |-> "https://x.com/b", title |-> <<"nil", "deal">>,
           summary |-> <<"booster">>, description |-> <<>>, published |-> d] :
        d \in {x \in RankDates : x.at \in {0 - 1, 0 - 100, 0 - 200, 0 - 400} \/ x = NoDate}}
    \cup {[link |-> "https://x.com/b", title |-> <<"first", "reported", "nil">>,
           summary |-> <<"booster">>, description |-> <<>>, published |-> NoDate]}

\* the page of every such entry: the text of its summary
RankResponses == {[status |-> 200, body |-> <<"<div>", "booster">>]}

\* the background crawler storing them pass after pass, and the queries
NextRank ==
    \/ Tick
    \/ BackgroundWake
    \/ BackgroundExcept
    \/ PassStep(Bg, ConcFEEDS, ConcFeedLens, RankEntries, RankResponses)
    \/ \E limit \in QueryLimits : get_summaries(limit)

SpecRank == Init /\ [][NextRank]_vars

\* ----------------------------------------------- the relevance engine alone
\* titles and resolved texts process_entry hands to the relevance engine
ProbeTitles ==
    { <<>>, <<"NIL", "Deal">>, <<"Breaking", ":", "stadium">>, <<"first", "reported">> }

\* a title with two key entities, a name and a university
EntityTitles == { <<"Arch", "Manning", "texas">> }

ProbeTexts ==
    { <<>>, <<"stadium">>, <<"ncaa">>, <<"nil", "nil">>, <<"transfer", "portal">>,
      <<"booster", "lawsuit">>, <<"recruiting", "app">>, <<"just", "in">>,
      <<"exclusive", ":", "house", "v", "ncaa">>, <<"partnership", "announced">>,
      <<"nil", "collective", "nil", "collective", "nil", "collective">> }

\* what process_entry computes from the title and the resolved text, and the
\* category nil_news.py gives them
Engine(title, t, key_entities) ==
    [done |-> TRUE,
     key_entities |-> key_entities,
     relevant |-> is_relevant(Join(title, t)),
     relevance_score |-> calculate_relevance_score(title, t),
     sentiment |-> detect_sentiment(title, t),
     breaking_news |-> is_breaking_news(title, t),
     category |-> categorize_content(title, t),
     news_category |-> NewsCategorize(title, t)]

InitEngine ==
    /\ pc = [p \in Tasks |-> "off"]
    /\ InitData
    /\ probe \in {[title |-> a, text |-> b, added |-> 0] : a \in ProbeTitles, b \in ProbeTexts}
                 \cup {[title |-> a, text |-> <<>>, added |-> 0] : a \in EntityTitles}
    /\ verdict = NoVerdict
    /\ InitWireOff

\* the engine is called on the probe
Evaluate ==
    /\ ~verdict.done
    /\ \E key_entities \in extract_key_entities(probe.title, probe.text) :
           verdict' = Engine(probe.title, probe.text, key_entities)
    /\ UNCHANGED <<crawl_vars, wire_vars, now, summaries, probe>>

\* the engine is called once more on the title and text as first given, by
\* this process or by one started with another hash seed
EvaluateAgain ==
    /\ verdict.done
    /\ probe.added = 0
    /\ \E key_entities \in extract_key_entities(probe.title, probe.text) :
           verdict' = Engine(probe.title, probe.text, key_entities)
    /\ UNCHANGED <<crawl_vars, wire_vars, now, summaries, probe>>

\* the text with the keyword k put in after its first i tokens
InsertAt(t, k, i) == SubSeq(t, 1, i) \o k \o SubSeq(t, i + 1, Len(t))

\* the engine is called again, on the text with one more occurrence of the
\* high-value keyword k
AddOccurrence(k, i) ==
    /\ verdict.done
    /\ probe.added < MaxAdded
    /\ \E t \in {InsertAt(probe.text, k, i)} :
           /\ probe' = [probe EXCEPT !.text = t, !.added = @ + 1]
           /\ \E key_entities \in extract_key_entities(probe.title, t) :
                  verdict' = Engine(probe.title, t, key_entities)
    /\ UNCHANGED <<crawl_vars, wire_vars, now, summaries>>

NextEngine ==
    \/ Evaluate
    \/ EvaluateAgain
    \/ \E j \in 1..Len(high_value), i \in 0..Len(probe.text) :
           AddOccurrence(high_value[j], i)

SpecEngine == InitEngine /\ [][NextEngine]_vars

\* ------------------------------------------------------------- nil_wire.py
\* CFG["keywords"] of the default configuration
WireKEYWORDS ==
    << <<"nil">>, <<"name", "image", "likeness">>, <<"collective">>, <<"booster">>,
       <<"endorsement">>, <<"sponsorship">>, <<"transfer", "portal">>, <<"licensing">>,
       <<"lawsuit">>, <<"royalty">>, <<"deal">>, <<"contract">>, <<"pay">> >>

\* CFG["feeds"], cut to two sources
WireFEEDS == <<1, 2>>

\* NILCrawler._is_relevant: any keyword occurs in the text
_is_relevant(txt) == AnyIn(lower(txt), WireKEYWORDS)

\* _summarise without an OpenAI key: the text itself when it is short
_summarise(t) == t

\* the seven values _process_entry hands to its INSERT
WireRow(e, t, at) ==
    [id |-> sha256(e.link), title |-> e.title, url |-> e.link,
     published |-> e.published, summary |-> t, brief |-> _summarise(t),
     crawled_at |-> at]

\* `SELECT 1 FROM stories WHERE id=?` on the crawler's connection, which sees
\* its own rows that are not committed yet
_exists(story_id) ==
    \E i \in 1..Len(wire_stories \o wire_txn) : (wire_stories \o wire_txn)[i].id = story_id

\* what feedparser.parse gives for one source
WireFeedResults ==
    { [bozo |-> TRUE, entries |-> <<>>],
      [bozo |-> FALSE,
       entries |-> << [link |-> "https://x.com/a", title |-> <<"nil", "deal">>,
                       published |-> NoDate] >>],
      [bozo |-> FALSE,
       entries |-> << [link |-> "https://x.com/b", title |-> <<"game">>,
                       published |-> NoDate],
                      [link |-> "https://x.com/a", title |-> <<"nil", "deal">>,
                       published |-> NoDate] >>],
      [bozo |-> FALSE,
       entries |-> << [link |-> NoLink, title |-> <<"nil", "collective">>,
                       published |-> NoDate] >>] }

\* what _fetch_html returns: None after any failure, or the page
WireHtml ==
    { [ok |-> FALSE, body |-> <<>>],
      [ok |-> TRUE, body |-> <<>>],
      [ok |-> TRUE, body |-> <<"<div>", "nil", "collective">>],
      [ok |-> TRUE, body |-> <<"<div>", "game">>] }

\* the entries of the sources that parsed, in source order
RECURSIVE WireTasks(_, _)
WireTasks(parsed, k) ==
    IF k > Len(WireFEEDS) THEN <<>>
    ELSE (IF parsed[k].bozo THEN <<>> ELSE parsed[k].entries) \o WireTasks(parsed, k + 1)

\* nil_wire.py started with `crawl`: continuous_crawl awaits init_db
InitWire ==
    /\ pc = [p \in Tasks |-> IF p \in {Bg, News} THEN "off" ELSE "idle"]
    /\ InitData
    /\ probe = NoProbe
    /\ verdict = NoVerdict
    /\ wire_pc = "init_db"
    /\ coros = <<>>
    /\ wire_stories = <<>>
    /\ wire_txn = <<>>

WireInitDbOk ==
    /\ wire_pc = "init_db"
    /\ wire_pc' = "crawl_once"
    /\ UNCHANGED <<crawl_vars, now, summaries, probe, verdict, coros, wire_stories, wire_txn>>

\* init_db raises before the try block: continuous_crawl ends
WireInitDbFail ==
    /\ wire_pc = "init_db"
    /\ wire_pc' = "stopped"
    /\ UNCHANGED <<crawl_vars, now, summaries, probe, verdict, coros, wire_stories, wire_txn>>

\* crawl_once up to `await gather(*tasks)`: every source is parsed, one
\* coroutine per entry; gather starts them in order and each runs to its first
\* await, so a coroutine without link has returned and the others have sent
\* their SELECT
crawl_once ==
    /\ wire_pc = "crawl_once"
    /\ \E parsed \in [1..Len(WireFEEDS) -> WireFeedResults] :
       \E tasks \in {WireTasks(parsed, 1)} :
           IF tasks = <<>>
           THEN /\ wire_pc' = "sleep"
                /\ coros' = <<>>
           ELSE /\ wire_pc' = "gather"
                /\ coros' = [i \in 1..Len(tasks) |->
                                [entry |-> tasks[i],
                                 pc |-> IF tasks[i].link = NoLink THEN "done" ELSE "exists",
                                 fetched |-> FALSE,
                                 text |-> <<>>]]
    /\ UNCHANGED <<crawl_vars, now, summaries, probe, verdict, wire_stories, wire_txn>>

\* a coroutine moves on
WireGoto(i, to) == coros' = [coros EXCEPT ![i].pc = to]

\* a coroutine that requests the page whatever the SELECT answers
WireExists_NoCheck(i) ==
    /\ coros[i].pc = "exists"
    /\ WireGoto(i, "fetch")
    /\ UNCHANGED <<crawl_vars, now, summaries, probe, verdict, wire_pc, wire_stories, wire_txn>>

\* `if await self._exists(story_id): return`
WireExists(i) ==
    /\ coros[i].pc = "exists"
    /\ IF _exists(sha256(coros[i].entry.link))
       THEN WireGoto(i, "done")
       ELSE WireGoto(i, "fetch")
    /\ UNCHANGED <<crawl_vars, now, summaries, probe, verdict, wire_pc, wire_stories, wire_txn>>

\* _fetch_html, `if not html: return`, extract, `if not self._is_relevant(text): return`
WireFetch(i, html) ==
    /\ coros[i].pc = "fetch"
    /\ IF ~html.ok \/ html.body = <<>>
       THEN coros' = [coros EXCEPT ![i].pc = "done", ![i].fetched = TRUE]
       ELSE \E t \in {IF extract(html.body) = <<>> THEN html.body ELSE extract(html.body)} :
                IF _is_relevant(t)
                THEN coros' = [coros EXCEPT ![i].pc = "insert", ![i].fetched = TRUE,
                                            ![i].text = t]
                ELSE coros' = [coros EXCEPT ![i].pc = "done", ![i].fetched = TRUE]
    /\ UNCHANGED <<crawl_vars, now, summaries, probe, verdict, wire_pc, wire_stories, wire_txn>>

\* the INSERT that overwrites a row of the same id
WireInsert_OrReplace(i) ==
    /\ coros[i].pc = "insert"
    /\ \A j \in 1..Len(coros) : coros[j].pc # "exists"
    /\ wire_txn' = Append(wire_txn, WireRow(coros[i].entry, coros[i].text, now))
    /\ wire_stories' = SelectSeq(wire_stories,
                                 LAMBDA r : r.id # sha256(coros[i].entry.link))
    /\ WireGoto(i, "commit")
    /\ UNCHANGED wire_pc
    /\ UNCHANGED <<crawl_vars, now, summaries, probe, verdict>>

\* `await self.db.execute("INSERT INTO stories VALUES (?,?,?,?,?,?,?)", ...)`:
\* the connection runs its statements in the order they were sent, so every
\* SELECT of the pass has been answered; a row of the same id makes the INSERT
\* raise IntegrityError, which gather hands to crawl_once
WireInsert(i) ==
    /\ coros[i].pc = "insert"
    /\ \A j \in 1..Len(coros) : coros[j].pc # "exists"
    /\ IF _exists(sha256(coros[i].entry.link))
       THEN /\ WireGoto(i, "raised")
            /\ wire_pc' = "raised"
            /\ UNCHANGED <<wire_stories, wire_txn>>
       ELSE /\ wire_txn' = Append(wire_txn, WireRow(coros[i].entry, coros[i].text, now))
            /\ WireGoto(i, "commit")
            /\ UNCHANGED <<wire_pc, wire_stories>>
    /\ UNCHANGED <<crawl_vars, now, summaries, probe, verdict>>

\* `await self.db.commit()`: commits what the connection has inserted
WireCommit(i) ==
    /\ coros[i].pc = "commit"
    /\ wire_stories' = wire_stories \o wire_txn
    /\ wire_txn' = <<>>
    /\ WireGoto(i, "done")
    /\ UNCHANGED <<crawl_vars, now, summaries, probe, verdict, wire_pc>>

\* gather returns when every coroutine has returned; crawl_once returns and
\* continuous_crawl sleeps
WireGatherDone ==
    /\ wire_pc = "gather"
    /\ \A i \in 1..Len(coros) : coros[i].pc = "done"
    /\ wire_pc' = "sleep"
    /\ UNCHANGED <<crawl_vars, now, summaries, probe, verdict, coros, wire_stories, wire_txn>>

\* the sleep is over: the next cycle
WireWake ==
    /\ wire_pc = "sleep"
    /\ wire_pc' = "crawl_once"
    /\ coros' = <<>>
    /\ UNCHANGED <<crawl_vars, now, summaries, probe, verdict, wire_stories, wire_txn>>

\* the exception leaves crawl_once; `except KeyboardInterrupt` does not catch
\* it, `finally` closes the connection, which drops what is not committed, and
\* asyncio.run cancels the coroutines that have not returned
WireStop ==
    /\ wire_pc = "raised"
    /\ wire_pc' = "stopped"
    /\ coros' = [i \in 1..Len(coros) |->
                    IF coros[i].pc \in {"done", "raised"} THEN coros[i]
                    ELSE [coros[i] EXCEPT !.pc = "cancelled"]]
    /\ wire_txn' = <<>>
    /\ UNCHANGED <<crawl_vars, now, summaries, probe, verdict, wire_stories>>

\* one step of a coroutine of the pass (they keep running while the exception
\* travels up to continuous_crawl)
WireStep ==
    /\ wire_pc \in {"gather", "raised"}
    /\ \E i \in 1..Len(coros) :
          \/ WireExists(i)
          \/ \E html \in WireHtml : WireFetch(i, html)
          \/ WireInsert(i)
          \/ WireCommit(i)

NextWire ==
    \/ WireInitDbOk
    \/ WireInitDbFail
    \/ crawl_once
    \/ WireStep
    \/ WireGatherDone
    \/ WireWake
    \/ WireStop

SpecWire == InitWire /\ [][NextWire]_vars

\* the scheduled crawler of main.py, or the crawler of nil_wire.py
NextEntries ==
    \/ BackgroundWake
    \/ BackgroundExcept
    \/ PassStep(Bg, FEEDS, PassFeedLens, Entries, PageResponses)
    \/ NextWire

SpecEntries == (Init \/ InitWire) /\ [][NextEntries]_vars

\* ------------------------------------------------------------------ claims
\* task p is inside crawl_feeds: a crawl pass is in flight
InPass(p) ==
    pc[p] \in {"init_db", "feed_get", "feed_except", "entry", "select",
               "page_get", "insert", "commit", "close"}

\* task p has an outbound HTTP request in flight
Requesting(p) == pc[p] \in {"feed_get", "page_get"}

\* number of rows of the table with url u
UrlCount(table, u) == Cardinality({i \in 1..Len(table) : table[i].url = u})

RowOf(table, u) == table[CHOOSE i \in 1..Len(table) : table[i].url = u]

\* C1: at every moment at most one crawl pass (an execution of crawl_feeds)
\* is in flight, whatever the interleaving of background_crawler and
\* manual_crawl requests.
C1_AtMostOnePass == Cardinality({p \in Passes : InPass(p)}) <= 1

\* C2: a manual_crawl request made while a pass is active starts no pass and
\* answers "already running"; only a request made while no pass is active
\* reports that a pass was started.
C2_ManualRejectedWhileActive ==
    [][(\E p \in Passes : InPass(p)) =>
          /\ \A m \in Manual : ~InPass(m) => ~InPass(m)'
          /\ response' \in {response, "already running"}]_vars

\* C3: no two rows of stories have the same url, and the row of a url, once
\* stored, stays the one row of that url.
C3_OneRecordPerUrl ==
    /\ [](\A u \in Links : UrlCount(stories, u) <= 1)
    /\ [][\A u \in Links : UrlCount(stories, u) = 1 =>
             /\ UrlCount(stories', u) = 1
             /\ RowOf(stories', u) = RowOf(stories, u)]_vars

\* two passes raced on one url: the loser's INSERT was refused, one row is
\* stored
C3_Witness ==
    \E p \in Passes :
        /\ pc[p] = "feed_except"
        /\ exc[p] = "IntegrityError"
        /\ UrlCount(stories, entry[p].link) = 1

\* C4: when two passes race on a url that both found absent, the losing
\* INSERT is a no-op: no error is raised into the losing pass.
C4_LosingInsertIsNoop ==
    \A p \in Passes : ~(pc[p] = "feed_except" /\ exc[p] = "IntegrityError")

\* C5: an entry whose url was stored by a completed earlier processing (an
\* earlier feed of the pass or an earlier pass) ends at the existence check:
\* no page request, no INSERT, no error from the duplicate, and the url has
\* exactly one row.
C5_SecondProcessingSkips ==
    \A p \in Passes :
        /\ pc[p] \in {"page_get", "insert", "commit"} =>
               ~(\E i \in 1..Len(stories) : stories[i].url = entry[p].link)
        /\ exc[p] # "IntegrityError"
        /\ pc[p] = "select" /\ (\E i \in 1..Len(stories) : stories[i].url = entry[p].link)
               => UrlCount(stories, entry[p].link) = 1
        /\ \A u \in Links : UrlCount(pg_stories, u) <= 1

\* the second feed of the pass hands over an entry whose url is stored
C5_Witness ==
    /\ pc[Bg] = "select"
    /\ feed[Bg] = 2
    /\ UrlCount(stories, entry[Bg].link) = 1

C7_EntryFailureIsLocal ==
    [][\A p \in Passes :
          (/\ pc[p] = "feed_except"
           /\ exc[p] \in {"OperationalError", "IntegrityError"}
           /\ idx[p] < EntrySlice(n[p])
           /\ pc'[p] # "feed_except")
          => (pc'[p] = "entry" /\ feed'[p] = feed[p] /\ idx'[p] = idx[p] + 1)]_vars

C9_EntryCap ==
    /\ \A p \in Passes :
           pc[p] \in {"entry", "select", "page_get", "insert", "commit", "feed_except"} =>
               idx[p] <= 8
    /\ pc[News] \in {"entry", "connect", "pg_insert", "feed_except"} =>
           idx[News] <= 10

\* a feed longer than the cap: its 8th entry is about to be stored
C9_Witness == n[Bg] > 8 /\ idx[Bg] = 8 /\ pc[Bg] = "insert"

\* C10: the number of outbound requests in flight is capped by a constant
\* that does not grow with the manual crawl requests: one request at a time,
\* as within one pass.
C10_RequestsCapped == Cardinality({p \in Passes : Requesting(p)}) <= 1

\* the combined text of the probe, as the engine sees it
ProbeContent == lower(Join(probe.title, probe.text))

\* C13: is_relevant accepts a combined text exactly when a high-signal phrase
\* occurs in it or at least 2 distinct vocabulary terms occur in it.
C13_TwoTierRelevance ==
    verdict.done =>
        (verdict.relevant <=>
            \/ AnyIn(ProbeContent, high_value)
            \/ Cardinality({k \in 1..Len(KEYWORDS) : Contains(ProbeContent, KEYWORDS[k])}) >= 2)

\* the weighted vocabulary: every scored term with its weight
C14_Weights ==
    {<<high_value[k], 3>> : k \in 1..Len(high_value)}
        \cup {<<medium_value[k], 2>> : k \in 1..Len(medium_value)}
        \cup {<<low_value[k], 1>> : k \in 1..Len(low_value)}

\* the places of content where the term k starts
C14_Occurrences(content, k) ==
    {i \in 1..Len(content) :
        i + Len(k) - 1 <= Len(content) /\ SubSeq(content, i, i + Len(k) - 1) = k}

\* sum of weight times occurrence count over the terms of W
RECURSIVE C14_Sum(_, _)
C14_Sum(W, content) ==
    IF W = {} THEN 0
    ELSE LET w == CHOOSE x \in W : TRUE
         IN  w[2] * Cardinality(C14_Occurrences(content, w[1])) + C14_Sum(W \ {w}, content)

\* the urgency markers of the score
C14_Urgent(content) ==
    \/ Contains(content, <<"breaking">>) \/ Contains(content, <<"exclusive">>)
    \/ Contains(content, <<"just", "in">>) \/ Contains(content, <<"developing">>)

\* C14: the score is min(15, S + B), S the sum of weight times occurrence
\* count over the scored terms and B the urgency bonus of 2, so it lies in
\* 0..15.
C14_ScoreFormula ==
    verdict.done =>
        /\ verdict.relevance_score =
               Min(15, C14_Sum(C14_Weights, ProbeContent)
                           + (IF C14_Urgent(ProbeContent) THEN 2 ELSE 0))
        /\ verdict.relevance_score \in 0..15

\* a score above the ceiling, with the bonus, is cut to 15
C14_Witness ==
    /\ verdict.done
    /\ C14_Urgent(ProbeContent)
    /\ C14_Sum(C14_Weights, ProbeContent) > 15
    /\ verdict.relevance_score = 15

\* C15: a call on the text with one more occurrence of a high-value keyword
\* never returns a lower score than the call on the text without it, at the
\* cap too.
C15_ScoreMonotone ==
    [][(verdict.done /\ verdict'.done /\ probe'.added = probe.added + 1)
          => verdict'.relevance_score >= verdict.relevance_score]_vars

\* an occurrence was added to a text whose score was at the cap already
C15_Witness ==
    /\ verdict.done
    /\ probe.added = 1
    /\ verdict.relevance_score = 15
    /\ Count(lower(probe.text), <<"nil", "collective">>) >= 3
    /\ Count(lower(probe.text), <<"house", "v", "ncaa">>) = 1

\* C16: is_breaking_news is true exactly when calculate_relevance_score
\* added the urgency bonus.
C16_BreakingIffBonus ==
    verdict.done => (verdict.breaking_news <=> UrgencyBonus(ProbeContent) = 2)

\* the category table of claim C17, in its order
C17_Order ==
    <<"Breaking News", "Legal", "Collectives", "Technology", "Social Media",
      "Recruiting", "High School", "Business", "Policy">>

\* category number k of table has a keyword in the combined text
C17_Matches(table, k) == AnyIn(ProbeContent, table[k].keywords)

\* c is the first category of table with a keyword in the combined text, or
\* "General" if there is none
C17_FirstMatch(table, c) ==
    /\ \A k \in 1..Len(table) :
           (c = table[k].name) <=>
               (C17_Matches(table, k) /\ \A j \in 1..(k - 1) : ~C17_Matches(table, j))
    /\ (c = "General") <=> (\A k \in 1..Len(table) : ~C17_Matches(table, k))

\* C17 as stated: both categorize_content scan the nine categories of
\* C17_Order and return the first that matches, "General" if none does.
C17_NineCategoryOrder ==
    /\ [k \in 1..Len(categories) |-> categories[k].name] = C17_Order
    /\ verdict.done =>
           /\ C17_FirstMatch(categories, verdict.category)
           /\ C17_FirstMatch(categories, verdict.news_category)

\* C17, amended: each categorize_content returns the first category of its
\* own table that matches (main.py the nine of C17_Order, nil_news.py the
\* seven from Legal to Business), "General" exactly when none matches.
C17_FirstMatchOwnTable ==
    /\ [k \in 1..Len(categories) |-> categories[k].name] = C17_Order
    /\ [k \in 1..Len(NewsCategories) |-> NewsCategories[k].name] = SubSeq(C17_Order, 2, 8)
    /\ verdict.done =>
           /\ C17_FirstMatch(categories, verdict.category)
           /\ C17_FirstMatch(NewsCategories, verdict.news_category)

\* a text that matches Legal and Collectives gets Legal from both
C17_Witness ==
    /\ verdict.done
    /\ C17_Matches(categories, 2) /\ C17_Matches(categories, 3)
    /\ ~C17_Matches(categories, 1)
    /\ verdict.category = "Legal" /\ verdict.news_category = "Legal"

\* C12: every stored record passed is_relevant on its title and the text
\* resolved for it, and its relevance_score, category, sentiment and
\* breaking_news are the values computed from that title and that text.
C12_StoredAfterAcceptance ==
    \A i \in 1..Len(stories) :
        LET r == stories[i]
        IN  /\ is_relevant(Join(r.title, r.summary))
            /\ r.relevance_score = calculate_relevance_score(r.title, r.summary)
            /\ r.category = categorize_content(r.title, r.summary)
            /\ r.sentiment = detect_sentiment(r.title, r.summary)
            /\ r.breaking_news = is_breaking_news(r.title, r.summary)

\* a record whose text came from the fetched page is stored
C12_Witness ==
    \E i \in 1..Len(stories) :
        /\ stories[i].summary = <<"nil", "collective">>
        /\ stories[i].category = "Collectives"
        /\ stories[i].relevance_score = 12

\* C18: when the page request raises, process_entry goes on with the feed
\* entry's summary and description as its text, and no exception leaves it.
C18_FetchFailureFallsBack ==
    /\ [](\A p \in Passes :
            (pc[p] = "insert" /\ page[p].kind = "raised")
                => text[p] = FallbackText(entry[p]))
    /\ [][\A p \in Passes : pc[p] = "page_get" => pc'[p] # "feed_except"]_vars

\* the request raised and the entry is about to be stored with its summary
C18_Witness ==
    /\ pc[Bg] = "insert"
    /\ page[Bg].kind = "raised"
    /\ text[Bg] = <<"booster">>
    /\ entry[Bg].summary = <<"booster">>

\* C19: after an answer with a status outside 200..299, or a page whose
\* extraction is empty, the text process_entry uses is the feed entry's
\* summary and description.
C19_BadResponseFallsBack ==
    \A p \in Passes :
        (/\ pc[p] = "insert"
         /\ page[p].kind = "response"
         /\ (page[p].status \notin 200..299 \/ extract(page[p].body) = <<>>))
            => text[p] = FallbackText(entry[p])

\* C20: no record is stored for an entry whose resolved text is empty.
C20_EmptyTextDropped ==
    \A i \in 1..Len(stories) : stories[i].summary # <<>>

\* C11: a stored record stays in the store with every field unchanged,
\* whatever crawl passes and queries follow.
C11_RecordsNeverChange ==
    [][\A i \in 1..Len(stories) :
          \E j \in 1..Len(stories') : stories'[j] = stories[i]]_vars

\* a query was answered from the first record, and a second record was
\* stored by an insert more than a day later
C11_Witness ==
    /\ Len(stories) = 2
    /\ stories[1].crawled_at.at = 0
    /\ stories[2].crawled_at.at = 30
    /\ summaries = <<SummaryOf(stories[1])>>

\* the recency basis the query ranks a returned record by; none when the
\* query has no date for it, and such a record counts as the oldest
C21_Basis(s) == sort_date(s)

\* hours between the recency basis and the query
C21_Age(s) == now - C21_Basis(s).at

C21_RecencyBonus(s) ==
    IF C21_Basis(s).null THEN 0
    ELSE IF C21_Age(s) < 24 THEN 50
    ELSE IF C21_Age(s) < 3 * 24 THEN 30
    ELSE IF C21_Age(s) < 7 * 24 THEN 20
    ELSE IF C21_Age(s) < 14 * 24 THEN 10
    ELSE 0

C21_BreakingBonus(s) ==
    IF s.breaking_news /\ ~C21_Basis(s).null /\ C21_Age(s) < 24 THEN 1000 ELSE 0

C21_CompositeScore(s) == C21_BreakingBonus(s) + C21_RecencyBonus(s) + s.relevance_score

\* a is strictly newer than b
C21_Newer(a, b) ==
    /\ ~C21_Basis(a).null
    /\ C21_Basis(b).null \/ C21_Basis(a).at > C21_Basis(b).at

\* a must come before b
C21_Above(a, b) ==
    \/ C21_CompositeScore(a) > C21_CompositeScore(b)
    \/ C21_CompositeScore(a) = C21_CompositeScore(b) /\ C21_Newer(a, b)

\* the records of the store, as a query returns them
C21_Stored == {SummaryOf(stories[i]) : i \in 1..Len(stories)}

C22_RecencyBasis(r) == IF r.published.fmt = "iso" THEN r.published.at ELSE r.crawled_at.at

C22_Bonuses(r) ==
    (IF r.breaking_news /\ now - C22_RecencyBasis(r) < 24 THEN 1000 ELSE 0)
    + (IF now - C22_RecencyBasis(r) < 24 THEN 50
       ELSE IF now - C22_RecencyBasis(r) < 3 * 24 THEN 30
       ELSE IF now - C22_RecencyBasis(r) < 7 * 24 THEN 20
       ELSE IF now - C22_RecencyBasis(r) < 14 * 24 THEN 10
       ELSE 0)

\* C22: every record is ranked by its published timestamp when that is
\* present and parseable and by crawled_at otherwise: the bonuses in its
\* composite are those that basis earns.
C22_BasisPublishedElseCrawled ==
    \A i \in 1..Len(stories) :
        Composite(stories[i], now) = C22_Bonuses(stories[i]) + stories[i].relevance_score

C25_QueryNeverBlocked ==
    /\ [](\A limit \in QueryLimits : ENABLED get_summaries(limit))
    /\ [][summaries' # summaries =>
            \A i \in 1..Len(summaries') :
                /\ \E k \in 1..Len(stories) : summaries'[i] = SummaryOf(stories[k])
                /\ \A p \in Passes :
                       pending[p] # NoRow => summaries'[i].url # pending[p].url]_vars

\* a query was answered with the record committed after the clock advanced,
\* while another pass, which read the clock before, holds an uncommitted row
C25_Witness ==
    \E p \in Passes :
        /\ pc[p] = "commit"
        /\ pending[p] # NoRow
        /\ pending[p].crawled_at.at = 0
        /\ Len(stories) = 1
        /\ stories[1].crawled_at.at = 30
        /\ summaries = <<SummaryOf(stories[1])>>

\* the crawl_scheduler of nil_news.py is inside crawl_feeds
C26_NewsInPass == pc[News] \in {"feed_get", "feed_except", "entry", "connect", "pg_insert"}

\* C26: every started pass ends and its crawler is idle again, whether its
\* sources succeed or fail, and no source is requested twice in one pass.
C26_PassEndsWithoutRetry ==
    /\ InPass(Bg) ~> pc[Bg] = "sleep"
    /\ C26_NewsInPass ~> pc[News] = "sleep"
    /\ [][\A p \in {Bg, News} :
            (/\ pc'[p] = "feed_get"
             /\ pc[p] \notin {"init_db", "start", "sleep"}
             /\ <<pc[p], feed[p], todo[p]>> # <<pc'[p], feed'[p], todo'[p]>>)
                => feed'[p] \notin fetched[p]]_vars

\* a pass in which every source failed is over: each source was requested
\* in it, nothing was stored and the crawler sleeps
C26_Witness ==
    /\ pc[Bg] = "sleep"
    /\ failed = {FEEDS[i] : i \in 1..NumFeeds}
    /\ stories = <<>>

\* C27: the relevance engine is deterministic: called again on the same
\* title and text it returns the same score, category, sentiment, breaking
\* flag and list of key entities.
C27_EngineDeterministic ==
    [][(verdict.done /\ verdict'.done /\ probe' = probe) => verdict' = verdict]_vars


\* C28: in nil_wire.py, when one crawl_once pass holds two entries with the
\* same link, exactly one row is stored for it, no coroutine raises, crawl_once
\* returns and continuous_crawl goes on: the crawler is never stopped by an
\* exception of the pass and no coroutine of the pass is cancelled.
C28_SameLink(i) ==
    \E j \in 1..Len(coros) : j # i /\ coros[j].entry.link = coros[i].entry.link

C28_DuplicateLinkAbsorbed ==
    \A i \in 1..Len(coros) :
        (coros[i].entry.link # NoLink /\ C28_SameLink(i))
            => /\ coros[i].pc \notin {"raised", "cancelled"}
               /\ wire_pc \notin {"raised", "stopped"}


\* C29: an entry whose url is stored when the existence check runs, and an
\* entry without a link, end there: the step requests no page and writes
\* nothing, in process_entry of main.py and in _process_entry of nil_wire.py.
C29_MainSkips(p) ==
    (\/ pc[p] = "entry" /\ pc'[p] # "select" /\ <<pc[p], idx[p], feed[p]>>' # <<pc[p], idx[p], feed[p]>>
     \/ pc[p] = "select" /\ pc'[p] # "select"
            /\ \E k \in 1..Len(stories) : stories[k].id = sha256(entry[p].link))
        => /\ pc'[p] \notin {"page_get", "insert", "commit"}
           /\ stories' = stories
           /\ pending' = pending
           /\ page' = page

C29_WireSkips(i) ==
    /\ (/\ coros[i].pc = "exists"
        /\ \E k \in 1..Len(wire_stories) : wire_stories[k].id = sha256(coros[i].entry.link)
        /\ Len(coros') = Len(coros)
        /\ coros'[i].pc \notin {"exists", "cancelled"})
           => /\ coros'[i].pc = "done"
              /\ ~coros'[i].fetched
              /\ wire_stories' = wire_stories
              /\ wire_txn' = wire_txn
    /\ coros[i].entry.link = NoLink => coros[i].pc = "done" /\ ~coros[i].fetched

C29_SkippedEntryTouchesNothing ==
    [][/\ \A p \in Passes : C29_MainSkips(p)
       /\ \A i \in 1..Len(coros) : C29_WireSkips(i)]_vars

\* in a later cycle of nil_wire.py the coroutine of a stored url has returned
\* at its existence check, next to one that returned for want of a link
C29_Witness ==
    /\ wire_pc = "gather"
    /\ \E i, j \in 1..Len(coros) :
          /\ coros[i].pc = "done"
          /\ ~coros[i].fetched
          /\ \E k \in 1..Len(wire_stories) : wire_stories[k].url = coros[i].entry.link
          /\ coros[j].pc = "done"
          /\ coros[j].entry.link = NoLink


\* C30: every row main.py has stored with category "Breaking News" has
\* breaking_news set and a relevance_score of at least 2 (the urgency bonus).
C30_BreakingCategoryImpliesFlag ==
    \A i \in 1..Len(stories) :
        stories[i].category = "Breaking News"
            => stories[i].breaking_news /\ stories[i].relevance_score >= 2

\* a stored row of category "Breaking News", and next to it a row with
\* breaking_news set and another category (the converse does not hold)
C30_Witness ==
    /\ \E i \in 1..Len(stories) :
          stories[i].category = "Breaking News" /\ stories[i].breaking_news
    /\ \E i \in 1..Len(stories) :
          stories[i].category # "Breaking News" /\ stories[i].breaking_news

====
